---- MODULE Spec2Model ----
(***************************************************************************)
(* Client-side prediction request/response workflow of the farming         *)
(* analytics front end: ApiService (two revisions: unnamed/part_005 and    *)
(* frontend/src/lib/api.jsx), the InputForm that calls it, the             *)
(* PredictionsPage that receives the result and the PredictionCard that    *)
(* shows it, and the session: LoginPage and SignupPage with the form       *)
(* validation, the Dashboard guard, the logout handlers and                *)
(* UserDataViewer.clearAllData.                                            *)
(*                                                                         *)
(* JavaScript values are records [t, s, n, a]: t is the type tag, s the    *)
(* text of a string as a sequence of text chunks (concatenation is \o,     *)
(* the empty string is << >>), n the value of a number (integers only),    *)
(* a the elements of an array of strings.  An object that the client only  *)
(* passes along (climate_data) is a reference n into ClimateHeap.          *)
(***************************************************************************)
EXTENDS Integers, Sequences, FiniteSets, TLC

VARIABLES
    token,             \* ApiService.token
    storage,           \* localStorage: key -> value
    api,               \* one direct invocation of an ApiService method
    formData,          \* InputForm state
    loading,           \* InputForm state
    error,             \* InputForm state
    inflight,          \* requests of InputForm.handleSubmit awaiting their response
    predictionResult,  \* PredictionsPage state
    card,              \* PredictionCard: the confidence of the result it was given
                       \* and the score and badge colour it rendered
    loginPage,         \* LoginPage state and the await its handleSubmit is suspended at
    signupPage,        \* SignupPage state and the await its handleSubmit is suspended at
    dashboard,         \* Dashboard state
    userDataViewer,    \* UserDataViewer state
    route,             \* location.pathname of the router
    sessionLog         \* history: the token the last successful login obtained,
                       \* and how the user logged out since ("no", "ui", "api")

vars ==
    <<token, storage, api, formData, loading, error, inflight, predictionResult, card,
      loginPage, signupPage, dashboard, userDataViewer, route, sessionLog>>

(***************************************************************************)
(* Bounds                                                                  *)
(***************************************************************************)
MaxSuggested == 4
MaxBatch == 1
MaxScore == 100

\* new Date().getFullYear()
CurrentYear == 2025

(***************************************************************************)
(* JavaScript values                                                       *)
(***************************************************************************)
Undefined == [t |-> "undefined", s |-> << >>, n |-> 0, a |-> << >>]
Null == [t |-> "null", s |-> << >>, n |-> 0, a |-> << >>]
Str(x) == [t |-> "string", s |-> x, n |-> 0, a |-> << >>]
Num(k) == [t |-> "number", s |-> << >>, n |-> k, a |-> << >>]
NaN == [t |-> "number", s |-> <<"NaN">>, n |-> 0, a |-> << >>]
Arr(l) == [t |-> "array", s |-> << >>, n |-> 0, a |-> l]
Obj(id) == [t |-> "object", s |-> << >>, n |-> id, a |-> << >>]

EmptyStr == Str(<< >>)
IsNaN(v) == v.t = "number" /\ v.s # << >>

\* typeof v
TypeOf(v) == IF v.t \in {"array", "null"} THEN "object" ELSE v.t

\* ToBoolean(v): the test made by !v, v || w and if (v)
Truthy(v) ==
    CASE v.t \in {"undefined", "null"} -> FALSE
      [] v.t = "string" -> v.s # << >>
      [] v.t = "number" -> v.n # 0 /\ ~IsNaN(v)
      [] OTHER -> TRUE

\* v || w
Or(v, w) == IF Truthy(v) THEN v ELSE w

\* data[field] / data.field on an input record (a function key -> value)
Get(data, k) == IF k \in DOMAIN data THEN data[k] ELSE Undefined

RECURSIVE Digits(_)
Digits(k) ==
    IF k < 10 THEN <<CASE k = 0 -> "0" [] k = 1 -> "1" [] k = 2 -> "2" [] k = 3 -> "3"
                       [] k = 4 -> "4" [] k = 5 -> "5" [] k = 6 -> "6" [] k = 7 -> "7"
                       [] k = 8 -> "8" [] OTHER -> "9">>
    ELSE Digits(k \div 10) \o Digits(k % 10)

RECURSIVE Join(_, _)
\* Array.prototype.join on an array of strings
Join(l, sep) ==
    IF l = << >> THEN << >>
    ELSE IF Len(l) = 1 THEN l[1]
    ELSE l[1] \o sep \o Join(Tail(l), sep)

\* Array.prototype.slice(0, k)
Slice0(l, k) == SubSeq(l, 1, IF Len(l) < k THEN Len(l) ELSE k)

\* String(v), as in a template literal or new Error(v).message
ToStr(v) ==
    CASE v.t = "undefined" -> <<"undefined">>
      [] v.t = "null" -> <<"null">>
      [] v.t = "string" -> v.s
      [] v.t = "number" -> IF IsNaN(v) THEN <<"NaN">>
                           ELSE IF v.n < 0 THEN <<"-">> \o Digits(0 - v.n) ELSE Digits(v.n)
      [] v.t = "array" -> Join(v.a, <<",">>)
      [] OTHER -> <<"[object Object]">>

\* JSON.stringify of an object literal: a member whose value is undefined is
\* left out, NaN is written as null
JSONstringify(obj) ==
    [k \in {j \in DOMAIN obj : obj[j].t # "undefined"} |->
        IF IsNaN(obj[k]) THEN Null ELSE obj[k]]

(***************************************************************************)
(* HTTP responses.  A fetch either rejects (kind "rejected", the thrown    *)
(* error's message is errmsg) or is answered; response.json() of an        *)
(* answered fetch either parses (json) or throws with message errmsg.      *)
(* result is the parsed 2xx payload, detail the parsed error body's        *)
(* detail: detail.v is its value (undefined, a string, or an object whose  *)
(* members are the other fields).                                          *)
(***************************************************************************)
ClimateHeap ==
    [id \in 0..1 |->
        CASE id = 1 -> [temperature |-> Num(30), rainfall |-> Num(100)]
          [] OTHER -> [temperature |-> Undefined, rainfall |-> Undefined]]

CropPool == <<<<"Maize">>, <<"Barley">>, <<"Rice">>, <<"Wheat">>, <<"Cotton">>, <<"Potato">>>>
SuggestedLists == {SubSeq(CropPool, 1, k) : k \in 0..MaxSuggested}

NoDetail ==
    [v |-> Undefined, error |-> Undefined, suggested_crops |-> Undefined,
     climate_data |-> Undefined, location |-> Undefined, crop |-> Undefined]
FlatDetails == {[NoDetail EXCEPT !.v = d] : d \in {Undefined, EmptyStr, Str(<<"Crop not supported">>)}}
ObjectDetails ==
    {[v |-> Obj(0), error |-> e, suggested_crops |-> sc, climate_data |-> cd,
      location |-> Str(<<"India">>), crop |-> Str(<<"Wheat">>)] :
        e \in {Undefined, Str(<<"Wheat is not grown here">>)},
        sc \in {Undefined} \cup {Arr(l) : l \in SuggestedLists},
        cd \in {Undefined}}
    \cup {[v |-> Obj(0), error |-> Str(<<"Wheat is not grown here">>), suggested_crops |-> sc,
           climate_data |-> Obj(1), location |-> Str(<<"India">>), crop |-> Str(<<"Wheat">>)] :
            sc \in {Undefined, Arr(SubSeq(CropPool, 1, 2))}}
SomeObjectDetails ==
    {d \in ObjectDetails :
        /\ d.error # Undefined
        /\ d.suggested_crops \in {Undefined, Arr(SubSeq(CropPool, 1, 2))}}

NoPayload == [predicted_yield |-> Undefined, confidence |-> Undefined, unit |-> Undefined]
YieldVals == {Num(3976), Str(<<"3", "9", "7", "6">>)}
ConfidenceVals ==
    {Undefined, Str(<<"high">>), Str(<<"medium">>), Str(<<"low">>),
     Num(0), Num(59), Num(60), Num(79), Num(80)}
Payloads ==
    {[predicted_yield |-> y, confidence |-> c, unit |-> Str(<<"hg/ha">>)] :
        y \in YieldVals, c \in ConfidenceVals}
    \cup {[predicted_yield |-> y, confidence |-> Str(<<"high">>), unit |-> Undefined] :
            y \in YieldVals \cup {Undefined}}

ErrorStatuses == {400, 422, 500}
FetchErrors == {<<"Failed to fetch">>}
JsonErrors == {<<"Unexpected token < in JSON at position 0">>}

NoResponse ==
    [kind |-> "none", ok |-> FALSE, status |-> 0, json |-> FALSE,
     result |-> NoPayload, detail |-> NoDetail, errmsg |-> << >>]
Responses ==
    {[NoResponse EXCEPT !.kind = "rejected", !.errmsg = m] : m \in FetchErrors}
    \cup {[NoResponse EXCEPT !.kind = "answered", !.ok = TRUE, !.status = 200,
                             !.json = TRUE, !.result = p] : p \in Payloads}
    \cup {[NoResponse EXCEPT !.kind = "answered", !.ok = FALSE, !.status = st,
                             !.json = TRUE, !.detail = d] :
                st \in ErrorStatuses, d \in FlatDetails \cup SomeObjectDetails}
    \cup {[NoResponse EXCEPT !.kind = "answered", !.ok = FALSE, !.status = 400,
                             !.json = TRUE, !.detail = d] : d \in ObjectDetails}
    \cup {[NoResponse EXCEPT !.kind = "answered", !.ok = o, !.status = IF o THEN 200 ELSE 500,
                             !.errmsg = m] : o \in BOOLEAN, m \in JsonErrors}

(***************************************************************************)
(* The object a prediction method returns.  A member the method does not   *)
(* set reads as undefined.  raw: the method returned the response's JSON   *)
(* unchanged, not an object it built; value: the method returned this      *)
(* value (null, an empty array) instead of an object.  The presentation    *)
(* members (factors, recommendations, the copies of model_info) are        *)
(* literals or copies that nothing branches on; they are not carried.      *)
(***************************************************************************)
NoResult ==
    [raw |-> FALSE, value |-> Undefined,
     success |-> FALSE, error |-> Undefined, errorType |-> Undefined,
     predictedYield |-> Undefined, confidence |-> Undefined, unit |-> Undefined,
     suggestedCrops |-> Undefined, climateData |-> Undefined, location |-> Undefined,
     crop |-> Undefined, requiredFields |-> Undefined]

(***************************************************************************)
(* ApiService, unnamed/part_005                                            *)
(***************************************************************************)
\* ApiService.getHeaders()
getHeaders(tok) ==
    [ContentType |-> Str(<<"application/json">>),
     Authorization |-> IF Truthy(tok) THEN Str(<<"Bearer ">> \o ToStr(tok)) ELSE Undefined]

\* const requiredFields = ['location', 'crop_name']
requiredFields == <<"location", "crop_name">>

\* missingFields with the check data[field] === undefined only
missingFields_undefinedOnly(data, required) ==
    SelectSeq(required, LAMBDA field : Get(data, field) = Undefined)

\* requiredFields.forEach(field => { if (!data[field] || data[field] === '') missingFields.push(field) })
missingFields(data, required) ==
    SelectSeq(required, LAMBDA field : ~Truthy(Get(data, field)) \/ Get(data, field) = EmptyStr)

\* the object returned when missingFields.length > 0
MissingFieldsResult(missing, required) ==
    [NoResult EXCEPT
        !.success = FALSE,
        !.error = Str(<<"Please provide all required fields: ">> \o
                      Join([i \in 1..Len(missing) |-> <<missing[i]>>], <<", ">>)),
        !.predictedYield = Null,
        !.requiredFields = Arr([i \in 1..Len(required) |-> <<required[i]>>])]

\* CatchResult with the message wrapped
CatchResult_prefixed(message, fallback) ==
    [NoResult EXCEPT
        !.success = FALSE,
        !.error = Str(<<"Error: ">> \o message),
        !.predictedYield = Null]

\* catch (error) { return { success: false, error: error.message || fallback, predictedYield: null } }
CatchResult(message, fallback) ==
    [NoResult EXCEPT
        !.success = FALSE,
        !.error = Or(Str(message), Str(fallback)),
        !.predictedYield = Null]

\* the object returned on response.ok by the three methods that build one
SuccessResult(result) ==
    [NoResult EXCEPT
        !.success = TRUE,
        !.predictedYield = result.predicted_yield,
        !.confidence = Or(result.confidence, Str(<<"high">>)),
        !.unit = Or(result.unit, Str(<<"hg/ha">>))]

\* body of the POST to /predict/farmer-friendly
predictYieldFarmerFriendly_body(data) ==
    JSONstringify(
        [location |-> Get(data, "location"),
         crop_name |-> Get(data, "crop_name"),
         year |-> Get(data, "year"),
         nitrogen |-> Get(data, "nitrogen"),
         phosphorus |-> Get(data, "phosphorus"),
         potassium |-> Get(data, "potassium"),
         soil_ph |-> Get(data, "soil_ph"),
         humidity |-> Get(data, "humidity"),
         ndvi_avg |-> Get(data, "ndvi_avg"),
         organic_matter |-> Get(data, "organic_matter"),
         avg_temp |-> Get(data, "avg_temp"),
         rainfall_mm |-> Get(data, "rainfall_mm"),
         pesticide_tonnes |-> Get(data, "pesticide_tonnes")])

\* the structured-error branch of predictYieldFarmerFriendly: the message (the
\* pictographs that open the two appended paragraphs are left out of the text)
StructuredErrorMessage(errorDetail) ==
    LET base == ToStr(Or(errorDetail.error, Str(<<"Validation failed">>)))
        crops == errorDetail.suggested_crops
        withCrops ==
            IF Truthy(crops) /\ crops.t = "array" /\ Len(crops.a) > 0
            THEN base \o <<"\n\nSuggested crops for ">> \o ToStr(errorDetail.location)
                      \o <<": ">> \o Join(Slice0(crops.a, 3), <<", ">>)
            ELSE base
        climate == ClimateHeap[errorDetail.climate_data.n]
    IN  IF Truthy(errorDetail.climate_data)
           /\ (climate.temperature # Undefined \/ climate.rainfall # Undefined)
        THEN withCrops \o <<"\n\nCurrent conditions: ">> \o ToStr(climate.temperature)
                       \o <<"C, ">> \o ToStr(climate.rainfall) \o <<"mm rainfall">>
        ELSE withCrops

\* the structured-error branch of predictYieldFarmerFriendly: the returned object
StructuredErrorResult(errorDetail) ==
    [NoResult EXCEPT
        !.success = FALSE,
        !.error = Str(StructuredErrorMessage(errorDetail)),
        !.errorType = Str(<<"validation">>),
        !.suggestedCrops = Or(errorDetail.suggested_crops, Arr(<< >>)),
        !.climateData = Or(errorDetail.climate_data, Obj(0)),
        !.location = errorDetail.location,
        !.crop = errorDetail.crop]

\* predictYieldFarmerFriendly from the resolution of fetch on
predictYieldFarmerFriendly_then(response) ==
    LET fallback == <<"Network error - unable to connect to farmer prediction service">>
    IN  IF response.kind = "rejected" \/ ~response.json
        THEN CatchResult(response.errmsg, fallback)
        ELSE IF response.ok
        THEN SuccessResult(response.result)
        ELSE IF response.status = 400 /\ Truthy(response.detail.v)
                /\ TypeOf(response.detail.v) = "object"
        THEN StructuredErrorResult(response.detail)
        ELSE CatchResult(ToStr(Or(response.detail.v,
                                  Str(<<"Farmer-friendly prediction failed">>))), fallback)

\* body of the POST to /predict/enhanced
predictYieldEnhanced_body(data) ==
    JSONstringify(
        [location |-> Get(data, "location"),
         crop_name |-> Get(data, "crop_name"),
         year |-> Get(data, "year"),
         nitrogen |-> Get(data, "nitrogen"),
         phosphorus |-> Get(data, "phosphorus"),
         potassium |-> Get(data, "potassium"),
         soil_ph |-> Get(data, "soil_ph"),
         humidity |-> Get(data, "humidity"),
         ndvi_avg |-> Get(data, "ndvi_avg"),
         organic_matter |-> Get(data, "organic_matter")])

\* predictYieldEnhanced from the resolution of fetch on
predictYieldEnhanced_then(response) ==
    LET fallback == <<"Network error - unable to connect to enhanced prediction service">>
    IN  IF response.kind = "rejected" \/ ~response.json
        THEN CatchResult(response.errmsg, fallback)
        ELSE IF response.ok
        THEN SuccessResult(response.result)
        ELSE CatchResult(ToStr(Or(response.detail.v,
                                  Str(<<"Enhanced prediction failed">>))), fallback)

\* enhancedData with the canonical name read first
enhancedData_canonicalFirst(data) ==
    [location |-> Or(Get(data, "location"), Or(Get(data, "area"), Get(data, "area_name"))),
     crop_name |-> Or(Get(data, "crop_name"), Get(data, "crop")),
     year |-> Get(data, "year"),
     avg_temp |-> Or(Get(data, "avg_temp"), Get(data, "temperature")),
     rainfall_mm |-> Or(Get(data, "rainfall_mm"), Get(data, "rainfall")),
     pesticide_tonnes |-> Or(Get(data, "pesticide_tonnes"), Get(data, "pesticides"))]

\* predictYield: const enhancedData = {...}
enhancedData(data) ==
    [location |-> Or(Get(data, "area"), Or(Get(data, "area_name"), Get(data, "location"))),
     crop_name |-> Or(Get(data, "crop"), Get(data, "crop_name")),
     year |-> Get(data, "year"),
     avg_temp |-> Or(Get(data, "temperature"), Get(data, "avg_temp")),
     rainfall_mm |-> Or(Get(data, "rainfall"), Get(data, "rainfall_mm")),
     pesticide_tonnes |-> Or(Get(data, "pesticides"), Get(data, "pesticide_tonnes"))]

\* one element of the body of the POST to /predict/batch
predictYieldBatch_item(data) ==
    JSONstringify(
        [area_name |-> Or(Get(data, "area"), Get(data, "area_name")),
         crop_name |-> Or(Get(data, "crop"), Get(data, "crop_name")),
         year |-> Or(Get(data, "year"), Num(CurrentYear)),
         avg_temp |-> Or(Get(data, "temperature"), Or(Get(data, "avg_temp"), Num(22))),
         rainfall_mm |-> Or(Get(data, "rainfall"), Or(Get(data, "rainfall_mm"), Num(800))),
         pesticide_tonnes |-> Or(Get(data, "pesticides"),
                                 Or(Get(data, "pesticide_tonnes"), Num(100)))])

\* predictYieldBatch from the resolution of fetch on
predictYieldBatch_then(response) ==
    IF response.kind = "rejected" \/ ~response.json
    THEN [NoResult EXCEPT !.success = FALSE, !.error = Str(response.errmsg)]
    ELSE IF response.ok
    THEN [NoResult EXCEPT !.raw = TRUE]
    ELSE [NoResult EXCEPT
            !.success = FALSE,
            !.error = Str(ToStr(Or(response.detail.v, Str(<<"Batch prediction failed">>))))]

\* healthCheck from the resolution of fetch on: return await response.json()
\* inside try, whatever the status
healthCheck_then(response) ==
    IF response.kind = "rejected" \/ ~response.json
    THEN [NoResult EXCEPT !.error = Str(response.errmsg)]
    ELSE [NoResult EXCEPT !.raw = TRUE]

\* getWeatherData, getFieldData, getUsers, getAnalytics: fetch(url) inside try,
\* then return response.json() without await
ResourceMethods == {"getWeatherData", "getFieldData", "getUsers", "getAnalytics"}

\* what the catch block of a resource method returns
resourceFallback(method) == IF method = "getUsers" THEN Arr(<< >>) ELSE Null

\* a resource method from the resolution of fetch on; when response.json()
\* rejects, the promise the method returned rejects with it (resource_rejects)
resource_then(method, response) ==
    IF response.kind = "rejected"
    THEN [NoResult EXCEPT !.value = resourceFallback(method)]
    ELSE [NoResult EXCEPT !.raw = response.json]

\* the promise returned by return response.json() is not awaited inside the
\* try: its rejection passes the catch block by
resource_rejects(method, response) ==
    method \in ResourceMethods /\ response.kind = "answered" /\ ~response.json

(***************************************************************************)
(* ApiService, frontend/src/lib/api.jsx: predictYield with its own         *)
(* required-field check, posting to /predict/                              *)
(***************************************************************************)
requiredFieldsV1 == <<"area", "crop", "year", "temperature", "rainfall", "pesticides">>

altNames(field) ==
    CASE field = "area" -> <<"area_name">>
      [] field = "crop" -> <<"crop_name">>
      [] field = "temperature" -> <<"avg_temp">>
      [] field = "rainfall" -> <<"rainfall_mm">>
      [] field = "pesticides" -> <<"pesticide_tonnes">>
      [] OTHER -> << >>

\* data[k] !== undefined && data[k] !== null && data[k] !== ''
hasValue(data, k) ==
    Get(data, k) # Undefined /\ Get(data, k) # Null /\ Get(data, k) # EmptyStr

missingFieldsV1(data) ==
    SelectSeq(requiredFieldsV1,
              LAMBDA field : ~(hasValue(data, field)
                               \/ \E i \in 1..Len(altNames(field)) :
                                     hasValue(data, altNames(field)[i])))

\* body of the POST to /predict/
predictYieldV1_body(data) ==
    JSONstringify(
        [area_name |-> Or(Get(data, "area"), Get(data, "area_name")),
         crop_name |-> Or(Get(data, "crop"), Get(data, "crop_name")),
         year |-> Get(data, "year"),
         avg_temp |-> Or(Get(data, "temperature"), Get(data, "avg_temp")),
         rainfall_mm |-> Or(Get(data, "rainfall"), Get(data, "rainfall_mm")),
         pesticide_tonnes |-> Or(Get(data, "pesticides"), Get(data, "pesticide_tonnes"))])

\* predictYield (api.jsx) from the resolution of fetch on
predictYieldV1_then(response) ==
    LET fallback == <<"Network error - unable to connect to prediction service">>
    IN  IF response.kind = "rejected" \/ ~response.json
        THEN CatchResult(response.errmsg, fallback)
        ELSE IF response.ok
        THEN SuccessResult(response.result)
        ELSE CatchResult(ToStr(Or(response.detail.v, Str(<<"Prediction failed">>))), fallback)

(***************************************************************************)
(* Invocations of the prediction methods.  api.data is the argument list   *)
(* of the invocation (the input record; for predictYieldBatch the array's  *)
(* elements), api.body the JSON body given to fetch (for predictYieldBatch *)
(* the elements of the array), api.sent whether fetch was called and       *)
(* api.attempts how many times the invocation has called it.  api.pc       *)
(* is "pending" while the method awaits fetch, "returned" once its promise *)
(* resolved with api.result, "rejected" once its promise rejected.         *)
(***************************************************************************)
NoHeaders == [ContentType |-> Undefined, Authorization |-> Undefined]

Idle ==
    [pc |-> "idle", method |-> "none", data |-> << >>, sent |-> FALSE, attempts |-> 0,
     body |-> << >>,
     headers |-> NoHeaders, response |-> NoResponse, result |-> NoResult]

\* the method returns before fetch
Returned(method, args, result) ==
    [Idle EXCEPT !.pc = "returned", !.method = method, !.data = args, !.result = result]

\* the method calls fetch and awaits it
Awaiting(method, args, body) ==
    [Idle EXCEPT !.pc = "pending", !.method = method, !.data = args, !.sent = TRUE,
                 !.attempts = 1, !.body = body, !.headers = getHeaders(token)]

\* the method calls fetch(url) with no headers and awaits it
AwaitingBare(method) ==
    [Idle EXCEPT !.pc = "pending", !.method = method, !.sent = TRUE, !.attempts = 1]

\* the method throws before its try block: the promise of the async function rejects
Rejected(method, args) ==
    [Idle EXCEPT !.pc = "rejected", !.method = method, !.data = args]

\* a method that calls fetch whatever the required-field check found
Checked_alwaysSends(method, args, missing, required, body) ==
    Awaiting(method, args, body)

\* the two outcomes of the required-field check that opens a method
Checked(method, args, missing, required, body) ==
    IF Len(missing) > 0
    THEN Returned(method, args, MissingFieldsResult(missing, required))
    ELSE Awaiting(method, args, body)

StringVals == {Undefined, Null, EmptyStr}
OptVals == {Undefined, Num(0), Num(25)}

PredictionInputs ==
    {[location |-> l, crop_name |-> c, year |-> y, nitrogen |-> n, avg_temp |-> t] :
        l \in StringVals \cup {Str(<<"India">>)}, c \in StringVals \cup {Str(<<"Wheat">>)},
        y \in {Undefined, Num(CurrentYear)}, n \in OptVals, t \in OptVals}

\* <<area, area_name, location>>
LegacyAreas ==
    {<<Undefined, Undefined, Undefined>>, <<EmptyStr, Undefined, Undefined>>,
     <<Str(<<"India">>), Undefined, Undefined>>, <<Str(<<"India">>), Undefined, Str(<<"Kerala">>)>>,
     <<Undefined, Str(<<"Punjab">>), Undefined>>, <<Undefined, Undefined, Str(<<"Kerala">>)>>,
     <<Str(<<"India">>), Str(<<"Punjab">>), Undefined>>,
     <<EmptyStr, Str(<<"Punjab">>), Str(<<"Kerala">>)>>}

\* <<temperature, rainfall, pesticides, avg_temp>>
Measurements ==
    {<<Undefined, Undefined, Undefined, Undefined>>, <<Num(25), Num(800), Num(120), Undefined>>,
     <<Num(0), Num(800), Num(0), Undefined>>, <<Num(25), Undefined, Undefined, Num(30)>>,
     <<Undefined, Undefined, Undefined, Num(30)>>, <<Num(0), Num(800), Num(0), Num(30)>>}

LegacyInputs ==
    {[area |-> a[1], area_name |-> a[2], location |-> a[3], crop |-> c, crop_name |-> cn,
      year |-> Num(CurrentYear), temperature |-> m[1], avg_temp |-> m[4],
      rainfall |-> m[2], pesticides |-> m[3]] :
        a \in LegacyAreas, c \in {Undefined, EmptyStr, Str(<<"Rice">>)},
        cn \in {Undefined, Str(<<"Wheat">>)}, m \in Measurements}

BatchItems ==
    {[area |-> a, crop |-> Str(<<"Rice">>), year |-> y, temperature |-> t] :
        a \in {Undefined, Str(<<"India">>)}, y \in {Undefined, Num(2024)}, t \in OptVals}

RECURSIVE SeqsUpTo(_, _)
SeqsUpTo(S, k) ==
    IF k = 0 THEN {<< >>}
    ELSE SeqsUpTo(S, k - 1) \cup {Append(q, x) : q \in {r \in SeqsUpTo(S, k - 1) : Len(r) = k - 1}, x \in S}

(***************************************************************************)
(* PredictionCard: the copy of frontend/src/components/navbar.jsx, which   *)
(* PredictionsPage renders from a Success, and the older copy of           *)
(* unnamed/part_003, which takes the confidence of its result as a score.  *)
(***************************************************************************)
\* confidence >= k for a confidence of any type: a value that is not a number
\* compares as NaN
AtLeast(confidence, k) ==
    confidence.t = "number" /\ ~IsNaN(confidence) /\ confidence.n >= k

\* displayResult.confidence === 'high' ? 85 : ... with medium shown as 55
confidenceScore_mediumAs55(confidence) ==
    IF confidence = Str(<<"high">>) THEN Num(85)
    ELSE IF confidence = Str(<<"medium">>) THEN Num(55)
    ELSE Num(45)

\* displayResult.confidence === 'high' ? 85 : displayResult.confidence === 'medium' ? 65 : 45
confidenceScore(confidence) ==
    IF confidence = Str(<<"high">>) THEN Num(85)
    ELSE IF confidence = Str(<<"medium">>) THEN Num(65)
    ELSE Num(45)

\* getConfidenceColor of navbar.jsx
getConfidenceColor(confidence) ==
    IF AtLeast(confidence, 80) THEN "bg-green-500"
    ELSE IF AtLeast(confidence, 60) THEN "bg-yellow-500"
    ELSE "bg-red-500"

\* getConfidenceColor of part_003
getConfidenceColorV1(confidence) ==
    IF AtLeast(confidence, 80) THEN "bg-green-500"
    ELSE IF AtLeast(confidence, 60) THEN "bg-yellow-500"
    ELSE "bg-red-500"

\* no card rendered
NoCard == [copy |-> "none", confidence |-> Undefined, score |-> Undefined, color |-> ""]

\* the badge of PredictionCard (navbar.jsx) for a Success with this confidence
PredictionCard(confidence) ==
    [copy |-> "navbar", confidence |-> confidence, score |-> confidenceScore(confidence),
     color |-> getConfidenceColor(confidenceScore(confidence))]

\* the badge of PredictionCard (part_003) for a result with this confidence
PredictionCardV1(confidence) ==
    [copy |-> "part_003", confidence |-> confidence, score |-> confidence,
     color |-> getConfidenceColorV1(confidence)]

\* the confidence of the result given to a card: a category, nothing, or a score
CardInputs ==
    {Undefined, Str(<<"high">>), Str(<<"medium">>), Str(<<"low">>)}
    \cup {Num(k) : k \in 0..MaxScore}

\* PredictionsPage is mounted.  Nothing on it reads the registeredUsers key
\* of localStorage, so the page is explored for one value of that key.
PredictionsPageOpen == route = "/predictions" /\ storage.registeredUsers = Null

FormQuiet ==
    /\ formData = [location |-> EmptyStr, crop |-> EmptyStr, year |-> Num(CurrentYear)]
    /\ loading = FALSE
    /\ error = Null
    /\ inflight = << >>
    /\ predictionResult = Null
    /\ card = NoCard

formVars == <<formData, loading, error, inflight, predictionResult, card>>
sessionVars ==
    <<token, storage, loginPage, signupPage, dashboard, userDataViewer, route, sessionLog>>

PredictYieldFarmerFriendly ==
    /\ api.pc = "idle"
    /\ PredictionsPageOpen
    /\ FormQuiet
    /\ \E data \in PredictionInputs :
        api' = Checked("predictYieldFarmerFriendly", <<data>>,
                       missingFields(data, requiredFields), requiredFields,
                       <<predictYieldFarmerFriendly_body(data)>>)
    /\ UNCHANGED <<sessionVars, formVars>>

PredictYieldEnhanced ==
    /\ api.pc = "idle"
    /\ PredictionsPageOpen
    /\ FormQuiet
    /\ \E data \in PredictionInputs :
        api' = Checked("predictYieldEnhanced", <<data>>,
                       missingFields(data, requiredFields), requiredFields,
                       <<predictYieldEnhanced_body(data)>>)
    /\ UNCHANGED <<sessionVars, formVars>>

\* predictYield called with no record
NoArguments == {Undefined, Null}

\* predictYield of part_005: const enhancedData = {location: data.area || ...}
\* is built outside any try (data.area of undefined or null throws a
\* TypeError), then return this.predictYieldEnhanced(enhancedData)
PredictYield ==
    /\ api.pc = "idle"
    /\ PredictionsPageOpen
    /\ FormQuiet
    /\ \E data \in LegacyInputs \cup NoArguments :
        api' = IF data \in NoArguments
               THEN Rejected("predictYield", <<data>>)
               ELSE Checked("predictYield", <<data>>,
                            missingFields(enhancedData(data), requiredFields), requiredFields,
                            <<predictYieldEnhanced_body(enhancedData(data))>>)
    /\ UNCHANGED <<sessionVars, formVars>>

\* predictYield of api.jsx
PredictYieldV1 ==
    /\ api.pc = "idle"
    /\ PredictionsPageOpen
    /\ FormQuiet
    /\ \E data \in LegacyInputs :
        api' = Checked("predictYieldV1", <<data>>, missingFieldsV1(data), requiredFieldsV1,
                       <<predictYieldV1_body(data)>>)
    /\ UNCHANGED <<sessionVars, formVars>>

PredictYieldBatch ==
    /\ api.pc = "idle"
    /\ PredictionsPageOpen
    /\ FormQuiet
    /\ \E dataArray \in SeqsUpTo(BatchItems, MaxBatch) \ {<< >>} :
        api' = Awaiting("predictYieldBatch", dataArray,
                        [i \in 1..Len(dataArray) |-> predictYieldBatch_item(dataArray[i])])
    /\ UNCHANGED <<sessionVars, formVars>>

HealthCheck ==
    /\ api.pc = "idle"
    /\ PredictionsPageOpen
    /\ FormQuiet
    /\ api' = AwaitingBare("healthCheck")
    /\ UNCHANGED <<sessionVars, formVars>>

\* getWeatherData(location), getFieldData(fieldId), getUsers(), getAnalytics():
\* the argument is only interpolated into the URL
GetResource ==
    /\ api.pc = "idle"
    /\ PredictionsPageOpen
    /\ FormQuiet
    /\ \E method \in ResourceMethods : api' = AwaitingBare(method)
    /\ UNCHANGED <<sessionVars, formVars>>

\* the rest of a method once its fetch has settled
Then(method, response) ==
    CASE method = "predictYieldFarmerFriendly" -> predictYieldFarmerFriendly_then(response)
      [] method = "predictYieldEnhanced" -> predictYieldEnhanced_then(response)
      [] method = "predictYield" -> predictYieldEnhanced_then(response)
      [] method = "predictYieldV1" -> predictYieldV1_then(response)
      [] method = "healthCheck" -> healthCheck_then(response)
      [] method \in ResourceMethods -> resource_then(method, response)
      [] OTHER -> predictYieldBatch_then(response)

\* Settle with the request issued once more after a rejected fetch or a non-2xx
Settle_retrying ==
    /\ api.pc = "pending"
    /\ \E response \in Responses :
        api' = IF (response.kind = "rejected" \/ ~response.ok) /\ api.attempts < 2
               THEN [api EXCEPT !.attempts = @ + 1]
               ELSE IF resource_rejects(api.method, response)
               THEN [api EXCEPT !.pc = "rejected", !.response = response]
               ELSE [api EXCEPT !.pc = "returned", !.response = response,
                                !.result = Then(api.method, response)]
    /\ UNCHANGED <<sessionVars, formVars>>

\* the awaited fetch settles and the method runs to its return: no branch of
\* any method calls fetch again
Settle ==
    /\ api.pc = "pending"
    /\ \E response \in Responses :
        api' = IF resource_rejects(api.method, response)
               THEN [api EXCEPT !.pc = "rejected", !.response = response]
               ELSE [api EXCEPT !.pc = "returned", !.response = response,
                                !.result = Then(api.method, response)]
    /\ UNCHANGED <<sessionVars, formVars>>

Tokens == {Null, Str(<<"token-1">>)}

(***************************************************************************)
(* E-mail addresses and passwords are strings of single characters, so     *)
(* that s has the length of the text.                                      *)
(***************************************************************************)
RegisteredEmail == Str(<<"a", "@", "b", ".", "c">>)

\* values of the registeredUsers key of localStorage.  This revision reads
\* the key (part_000 14, part_008 18) and removes it (part_008 50) and never
\* writes it: its value is what the browser profile holds.
RegisteredUsersTexts ==
    {Null, Str(<<"[]">>), Str(<<"[{\"email\":\"a@b.c\",\"password\":\"secret\"}]">>)}

\* JSON.parse(localStorage.getItem('registeredUsers') || '[]'): the e-mail of
\* each user of the list
registeredUsers(stored) ==
    IF Or(stored, Str(<<"[]">>)) = Str(<<"[]">>) THEN << >> ELSE <<RegisteredEmail>>

InitSession ==
    /\ storage \in {[auth_token |-> t, user |-> Null, registeredUsers |-> u] :
                        t \in Tokens, u \in RegisteredUsersTexts}
    /\ token = storage.auth_token

(***************************************************************************)
(* Form validation (unnamed/part_000, imported as utils/validation)        *)
(***************************************************************************)
\* no character of s[from..to] matches [\s@]
NoSpaceOrAt(s, from, to) == \A k \in from..to : s[k] \notin {" ", "@"}

\* /^[^\s@]+@[^\s@]+\.[^\s@]+$/.test(email)
validateEmail(email) ==
    LET s == email.s
    IN  \E i \in 2..Len(s), j \in 4..(Len(s) - 1) :
            /\ s[i] = "@"
            /\ s[j] = "."
            /\ j > i + 1
            /\ NoSpaceOrAt(s, 1, i - 1)
            /\ NoSpaceOrAt(s, i + 1, j - 1)
            /\ NoSpaceOrAt(s, j + 1, Len(s))

\* password.length >= 6
validatePassword(password) == Len(password.s) >= 6

\* registeredUsers.some(user => user.email === email)
isUserRegistered(email, stored) ==
    \E i \in 1..Len(registeredUsers(stored)) : registeredUsers(stored)[i] = email

\* the errors object of LoginPage; an absent key is undefined
NoErrors == [email |-> Undefined, password |-> Undefined, general |-> Undefined]

\* validateLoginForm with no look at the registeredUsers list
validateLoginForm_anyAccount(email, password, stored) ==
    [NoErrors EXCEPT
        !.email = IF ~Truthy(email) THEN Str(<<"Email is required">>)
                  ELSE IF ~validateEmail(email)
                  THEN Str(<<"Please enter a valid email address">>)
                  ELSE Undefined,
        !.password = IF ~Truthy(password) THEN Str(<<"Password is required">>)
                     ELSE IF ~validatePassword(password)
                     THEN Str(<<"Password must be at least 6 characters long">>)
                     ELSE Undefined]

\* validateLoginForm(email, password).errors; stored is the registeredUsers key
validateLoginForm(email, password, stored) ==
    [NoErrors EXCEPT
        !.email = IF ~Truthy(email) THEN Str(<<"Email is required">>)
                  ELSE IF ~validateEmail(email)
                  THEN Str(<<"Please enter a valid email address">>)
                  ELSE IF ~isUserRegistered(email, stored)
                  THEN Str(<<"No account found with this email. Please sign up first.">>)
                  ELSE Undefined,
        !.password = IF ~Truthy(password) THEN Str(<<"Password is required">>)
                     ELSE IF ~validatePassword(password)
                     THEN Str(<<"Password must be at least 6 characters long">>)
                     ELSE Undefined]

\* validation.isValid: Object.keys(errors).length === 0
isValid(errors) == \A k \in DOMAIN errors : errors[k] = Undefined

RECURSIVE TrimStart(_)
TrimStart(s) == IF s # << >> /\ Head(s) = " " THEN TrimStart(Tail(s)) ELSE s

RECURSIVE TrimEnd(_)
TrimEnd(s) ==
    IF s # << >> /\ s[Len(s)] = " " THEN TrimEnd(SubSeq(s, 1, Len(s) - 1)) ELSE s

\* String.prototype.trim
Trim(v) == Str(TrimEnd(TrimStart(v.s)))

\* the errors object of SignupPage
NoSignupErrors ==
    [firstName |-> Undefined, lastName |-> Undefined, email |-> Undefined,
     password |-> Undefined, farmSize |-> Undefined, agreeToTerms |-> Undefined,
     general |-> Undefined]

\* validateSignupForm(formData).errors
validateSignupForm(form) ==
    [NoSignupErrors EXCEPT
        !.firstName = IF ~Truthy(Trim(form.firstName))
                      THEN Str(<<"First name is required">>) ELSE Undefined,
        !.lastName = IF ~Truthy(Trim(form.lastName))
                     THEN Str(<<"Last name is required">>) ELSE Undefined,
        !.email = IF ~Truthy(form.email) THEN Str(<<"Email is required">>)
                  ELSE IF ~validateEmail(form.email)
                  THEN Str(<<"Please enter a valid email address">>)
                  ELSE Undefined,
        !.password = IF ~Truthy(form.password) THEN Str(<<"Password is required">>)
                     ELSE IF ~validatePassword(form.password)
                     THEN Str(<<"Password must be at least 6 characters long">>)
                     ELSE Undefined,
        !.farmSize = IF ~Truthy(form.farmSize)
                     THEN Str(<<"Please select your farm size">>) ELSE Undefined,
        !.agreeToTerms = IF ~form.agreeToTerms
                         THEN Str(<<"You must agree to the terms and conditions">>)
                         ELSE Undefined]

(***************************************************************************)
(* The session: LoginPage.handleSubmit (pages/login.jsx) and               *)
(* SignupPage.handleSubmit (lib/constants.jsx) with ApiService.register,   *)
(* ApiService.login and ApiService.getCurrentUser, the Dashboard guard,    *)
(* the handleLogout of DashboardNav and Dashboard, ApiService.logout and   *)
(* UserDataViewer.clearAllData.  The pc of a page is "register", "login"   *)
(* or "me" while its handleSubmit awaits ApiService.register, .login or    *)
(* .getCurrentUser; the request of getCurrentUser has the page's headers.  *)
(* Only the page of the current route is mounted; a page that is not       *)
(* mounted has its initial state.                                          *)
(***************************************************************************)
Routes == {"/", "/login", "/signup", "/dashboard", "/predictions", "/admin/user-data"}

\* data.access_token of a 2xx answer of /auth/token
LoginTokens == {Str(<<"token-2">>)}

\* error.detail of a non-2xx answer of /auth/token
LoginDetails ==
    {Undefined, Str(<<"Incorrect email or password">>), Str(<<"Inactive user">>),
     Arr(<< <<"field required">> >>)}

\* outcomes of the fetch of login and of its response.json()
LoginResponses ==
    {[kind |-> "rejected", ok |-> FALSE, json |-> FALSE, access_token |-> Undefined,
      detail |-> Undefined]}
    \cup {[kind |-> "answered", ok |-> TRUE, json |-> TRUE, access_token |-> t,
           detail |-> Undefined] : t \in LoginTokens}
    \cup {[kind |-> "answered", ok |-> FALSE, json |-> TRUE, access_token |-> Undefined,
           detail |-> d] : d \in LoginDetails}
    \cup {[kind |-> "answered", ok |-> o, json |-> FALSE, access_token |-> Undefined,
           detail |-> Undefined] : o \in BOOLEAN}

\* error.detail of a non-2xx answer of /auth/register/
RegisterDetails ==
    {Undefined, Str(<<"Email ", "already registered">>), Str(<<"Registration closed">>),
     Arr(<< <<"field required">> >>)}

\* outcomes of the fetch of register and of its response.json()
RegisterResponses ==
    {[kind |-> "rejected", ok |-> FALSE, json |-> FALSE, detail |-> Undefined]}
    \cup {[kind |-> "answered", ok |-> TRUE, json |-> TRUE, detail |-> Undefined]}
    \cup {[kind |-> "answered", ok |-> FALSE, json |-> TRUE, detail |-> d] :
            d \in RegisterDetails}
    \cup {[kind |-> "answered", ok |-> o, json |-> FALSE, detail |-> Undefined] :
            o \in BOOLEAN}

\* outcomes of the fetch of getCurrentUser and of its response.json()
MeResponses ==
    {[kind |-> "rejected", ok |-> FALSE, json |-> FALSE]}
    \cup {[kind |-> "answered", ok |-> o, json |-> j] : o \in BOOLEAN, j \in BOOLEAN}

\* JSON.stringify({email, firstName, lastName, farmSize, isAuthenticated: true})
UserProfile == Str(<<"{\"email\":\"farmer@example.com\",\"isAuthenticated\":true}">>)

\* JSON.parse of the text of the user key: the object it denotes, null for
\* the text 'null'
JSONparseUser(text) == IF text = Str(<<"null">>) THEN Null ELSE Obj(1)

\* values of the email and password fields of LoginPage at a submission
LoginEmails ==
    {EmptyStr, Str(<<"a", "@", "b">>), RegisteredEmail, Str(<<"c", "@", "d", ".", "e">>)}
Passwords ==
    {EmptyStr, Str(<<"1", "2", "3", "4", "5">>), Str(<<"s", "e", "c", "r", "e", "t">>)}

\* values of SignupPage.formData at a submission
FilledSignup ==
    [firstName |-> Str(<<"A">>), lastName |-> Str(<<"B">>),
     email |-> Str(<<"c", "@", "d", ".", "e">>),
     password |-> Str(<<"s", "e", "c", "r", "e", "t">>),
     farmSize |-> Str(<<"small">>), agreeToTerms |-> TRUE]
EmptySignup ==
    [firstName |-> EmptyStr, lastName |-> EmptyStr, email |-> EmptyStr,
     password |-> EmptyStr, farmSize |-> EmptyStr, agreeToTerms |-> FALSE]
SignupForms ==
    {FilledSignup, EmptySignup, [EmptySignup EXCEPT !.agreeToTerms = TRUE],
     [FilledSignup EXCEPT !.firstName = Str(<<" ">>)],
     [FilledSignup EXCEPT !.email = Str(<<"a", "@", "b">>)],
     [FilledSignup EXCEPT !.password = Str(<<"1", "2", "3", "4", "5">>)],
     [FilledSignup EXCEPT !.farmSize = EmptyStr]}

LoginIdle ==
    [pc |-> "idle", headers |-> NoHeaders, email |-> EmptyStr, password |-> EmptyStr,
     errors |-> NoErrors, isLoading |-> FALSE]
SignupIdle ==
    [pc |-> "idle", headers |-> NoHeaders, formData |-> EmptySignup,
     errors |-> NoSignupErrors, isLoading |-> FALSE]
NoDashboard == [user |-> Null]
NoViewer == [localStorageUsers |-> << >>, currentUser |-> Null]
NoSessionLog == [login |-> Null, logout |-> "no"]

\* String.prototype.includes for a phrase that is one chunk of the text
Includes(v, phrase) == \E i \in 1..Len(v.s) : v.s[i] = phrase

\* the result of an ApiService method of the shape
\*   if (response.ok) return { success: true, data }
\*   else return { success: false, error: error.detail || fallback }
\*   catch: return { success: false, error: "Network error" }
authResult(response, fallback) ==
    IF response.kind = "rejected" \/ ~response.json
    THEN [success |-> FALSE, error |-> Str(<<"Network error">>)]
    ELSE IF response.ok
    THEN [success |-> TRUE, error |-> Undefined]
    ELSE [success |-> FALSE, error |-> Or(response.detail, Str(<<fallback>>))]

\* ApiService.login: { success: true, data } exactly on a 2xx whose body parsed
login_success(response) == authResult(response, "Login failed").success

\* ApiService.getCurrentUser: { success: true, data } exactly on a 2xx whose body parsed
getCurrentUser_success(response) == response.kind = "answered" /\ response.ok /\ response.json

\* LoginPage.handleSubmit, the else branch of if (result.success): errors.general
loginErrorOf(result) ==
    IF Truthy(result.error) /\ TypeOf(result.error) = "string"
    THEN IF Includes(result.error, "Incorrect email or password")
         THEN Str(<<"Invalid email or password. Please check your credentials and try again.">>)
         ELSE IF Includes(result.error, "Network error")
         THEN Str(<<"Connection failed. Please check your internet connection and try again.">>)
         ELSE result.error
    ELSE Str(<<"Login failed. Please verify your email and password are correct.">>)

\* SignupPage.handleSubmit, the else branch of if (result.success): errors.general
registerErrorOf(result) ==
    IF Truthy(result.error) /\ TypeOf(result.error) = "string"
    THEN IF Includes(result.error, "already registered")
            \/ Includes(result.error, "already exists")
         THEN Str(<<"An account with this email already exists. Please sign in instead.">>)
         ELSE result.error
    ELSE Str(<<"Registration failed. Please try again.">>)

\* a Dashboard whose mount effect does not navigate
Landing_unguarded(to, store) == to

\* the location after navigate(to) and the mount effect of the page: the
\* effect of Dashboard navigates to /login when the user key is absent
Landing(to, store) ==
    IF to = "/dashboard" /\ ~Truthy(store.user) THEN "/login" ELSE to

\* Dashboard state after its mount effect: setUser(JSON.parse(userData))
DashboardMounted(to, store) ==
    IF to = "/dashboard" /\ Truthy(store.user)
    THEN [user |-> JSONparseUser(store.user)]
    ELSE NoDashboard

\* UserDataViewer state after loadUserData()
loadUserData(store) ==
    [localStorageUsers |-> registeredUsers(store.registeredUsers),
     currentUser |-> JSONparseUser(Or(store.user, Str(<<"null">>)))]

\* UserDataViewer state after its mount effect
ViewerMounted(to, store) ==
    IF to = "/admin/user-data" THEN loadUserData(store) ELSE NoViewer

\* LoginPage.handleSubmit up to await ApiService.login(email, password), or
\* to its return when validateLoginForm found an error
LoginSubmit ==
    /\ route = "/login"
    /\ ~loginPage.isLoading
    /\ \E email \in LoginEmails, password \in Passwords :
        LET errors == validateLoginForm(email, password, storage.registeredUsers)
        IN  loginPage' =
                IF isValid(errors)
                THEN [LoginIdle EXCEPT !.pc = "login", !.email = email,
                                       !.password = password, !.isLoading = TRUE]
                ELSE [LoginIdle EXCEPT !.email = email, !.password = password,
                                       !.errors = errors]
    /\ UNCHANGED <<token, storage, signupPage, dashboard, userDataViewer, route,
                   sessionLog, api, formVars>>

\* <button type="submit" disabled={!formData.agreeToTerms || isLoading}>
SignupEnabled(form) == form.agreeToTerms /\ ~signupPage.isLoading

\* SignupPage.handleSubmit up to await ApiService.register(formData), or to
\* its return when validateSignupForm found an error
SignupSubmit ==
    /\ route = "/signup"
    /\ \E form \in {f \in SignupForms : SignupEnabled(f)} :
        LET errors == validateSignupForm(form)
        IN  signupPage' =
                IF isValid(errors)
                THEN [SignupIdle EXCEPT !.pc = "register", !.formData = form,
                                        !.isLoading = TRUE]
                ELSE [SignupIdle EXCEPT !.formData = form, !.errors = errors]
    /\ UNCHANGED <<token, storage, loginPage, dashboard, userDataViewer, route,
                   sessionLog, api, formVars>>

\* ApiService.register from the resolution of its fetch on, then
\* SignupPage.handleSubmit up to await ApiService.login or, for a failed
\* registration, to its end
RegisterSettle ==
    /\ signupPage.pc = "register"
    /\ \E response \in RegisterResponses :
        LET result == authResult(response, "Registration failed")
        IN  signupPage' =
                IF result.success
                THEN [signupPage EXCEPT !.pc = "login"]
                ELSE [signupPage EXCEPT !.pc = "idle", !.isLoading = FALSE,
                                        !.errors.general = registerErrorOf(result)]
    /\ UNCHANGED <<token, storage, loginPage, dashboard, userDataViewer, route,
                   sessionLog, api, formVars>>

\* LoginSettle with the token cleared by a failed attempt
LoginSettle_clearingOnFailure ==
    /\ loginPage.pc = "login" \/ signupPage.pc = "login"
    /\ \E response \in LoginResponses :
        LET result == authResult(response, "Login failed")
        IN  /\ IF result.success
               THEN /\ token' = response.access_token
                    /\ storage' = [storage EXCEPT
                                     !.auth_token = Str(ToStr(response.access_token))]
                    /\ sessionLog' = [login |-> response.access_token, logout |-> "no"]
               ELSE /\ token' = Null
                    /\ storage' = [storage EXCEPT !.auth_token = Null]
                    /\ sessionLog' = sessionLog
            /\ IF loginPage.pc = "login"
               THEN /\ loginPage' =
                        IF result.success
                        THEN [loginPage EXCEPT
                                !.pc = "me", !.headers = getHeaders(response.access_token)]
                        ELSE [loginPage EXCEPT
                                !.pc = "idle", !.isLoading = FALSE,
                                !.errors.general = loginErrorOf(result)]
                    /\ UNCHANGED signupPage
               ELSE /\ signupPage' =
                        IF result.success
                        THEN [signupPage EXCEPT
                                !.pc = "me", !.headers = getHeaders(response.access_token)]
                        ELSE [signupPage EXCEPT
                                !.pc = "idle", !.isLoading = FALSE,
                                !.errors.general = Str(<<"Registration successful but auto-login failed. Please try logging in manually.">>)]
                    /\ UNCHANGED loginPage
    /\ UNCHANGED <<dashboard, userDataViewer, route, api, formVars>>

\* ApiService.login from the resolution of its fetch on, then the
\* handleSubmit that awaits it (LoginPage or SignupPage) up to
\* await ApiService.getCurrentUser() or, for a failed login, to its end
LoginSettle ==
    /\ loginPage.pc = "login" \/ signupPage.pc = "login"
    /\ \E response \in LoginResponses :
        LET result == authResult(response, "Login failed")
        IN  /\ IF result.success
               THEN /\ token' = response.access_token
                    /\ storage' = [storage EXCEPT
                                     !.auth_token = Str(ToStr(response.access_token))]
                    /\ sessionLog' = [login |-> response.access_token, logout |-> "no"]
               ELSE UNCHANGED <<token, storage, sessionLog>>
            /\ IF loginPage.pc = "login"
               THEN /\ loginPage' =
                        IF result.success
                        THEN [loginPage EXCEPT
                                !.pc = "me", !.headers = getHeaders(response.access_token)]
                        ELSE [loginPage EXCEPT
                                !.pc = "idle", !.isLoading = FALSE,
                                !.errors.general = loginErrorOf(result)]
                    /\ UNCHANGED signupPage
               ELSE /\ signupPage' =
                        IF result.success
                        THEN [signupPage EXCEPT
                                !.pc = "me", !.headers = getHeaders(response.access_token)]
                        ELSE [signupPage EXCEPT
                                !.pc = "idle", !.isLoading = FALSE,
                                !.errors.general = Str(<<"Registration successful but auto-login failed. Please try logging in manually.">>)]
                    /\ UNCHANGED loginPage
    /\ UNCHANGED <<dashboard, userDataViewer, route, api, formVars>>

\* MeSettle with localStorage.setItem('user', ...) ahead of the test of
\* userResult.success
MeSettle_storingFirst ==
    /\ loginPage.pc = "me" \/ signupPage.pc = "me"
    /\ \E response \in MeResponses :
        LET store == [storage EXCEPT !.user = UserProfile]
        IN  /\ storage' = store
            /\ IF getCurrentUser_success(response)
               THEN /\ route' = Landing("/dashboard", store)
                    /\ dashboard' = DashboardMounted("/dashboard", store)
                    /\ loginPage' = LoginIdle
                    /\ signupPage' = SignupIdle
               ELSE /\ loginPage' =
                        IF loginPage.pc = "me"
                        THEN [loginPage EXCEPT
                                !.pc = "idle", !.isLoading = FALSE, !.headers = NoHeaders,
                                !.errors.general = Str(<<"Login successful but failed to get user info. Please try again.">>)]
                        ELSE loginPage
                    /\ signupPage' =
                        IF signupPage.pc = "me"
                        THEN [signupPage EXCEPT
                                !.pc = "idle", !.isLoading = FALSE, !.headers = NoHeaders,
                                !.errors.general = Str(<<"Registration successful but failed to get user info. Please try logging in.">>)]
                        ELSE signupPage
                    /\ UNCHANGED <<route, dashboard>>
    /\ UNCHANGED <<token, userDataViewer, sessionLog, api, formVars>>

\* ApiService.getCurrentUser from the resolution of its fetch on, then the
\* handleSubmit that awaits it to its end: on success
\* localStorage.setItem('user', ...) and navigate('/dashboard'), which
\* unmounts the page and mounts Dashboard
MeSettle ==
    /\ loginPage.pc = "me" \/ signupPage.pc = "me"
    /\ \E response \in MeResponses :
        IF getCurrentUser_success(response)
        THEN LET store == [storage EXCEPT !.user = UserProfile]
             IN  /\ storage' = store
                 /\ route' = Landing("/dashboard", store)
                 /\ dashboard' = DashboardMounted("/dashboard", store)
                 /\ loginPage' = LoginIdle
                 /\ signupPage' = SignupIdle
        ELSE /\ IF loginPage.pc = "me"
                THEN /\ loginPage' =
                        [loginPage EXCEPT
                            !.pc = "idle", !.isLoading = FALSE, !.headers = NoHeaders,
                            !.errors.general = Str(<<"Login successful but failed to get user info. Please try again.">>)]
                     /\ UNCHANGED signupPage
                ELSE /\ signupPage' =
                        [signupPage EXCEPT
                            !.pc = "idle", !.isLoading = FALSE, !.headers = NoHeaders,
                            !.errors.general = Str(<<"Registration successful but failed to get user info. Please try logging in.">>)]
                     /\ UNCHANGED loginPage
             /\ UNCHANGED <<storage, route, dashboard>>
    /\ UNCHANGED <<token, userDataViewer, sessionLog, api, formVars>>

\* handleLogout of DashboardNav and of Dashboard:
\* localStorage.removeItem('user'); navigate('/')
HandleLogout ==
    /\ route \in {"/dashboard", "/predictions"}
    /\ api.pc = "idle"
    /\ FormQuiet
    /\ storage' = [storage EXCEPT !.user = Null]
    /\ route' = "/"
    /\ dashboard' = NoDashboard
    /\ sessionLog' = [login |-> Null, logout |-> "ui"]
    /\ UNCHANGED <<token, loginPage, signupPage, userDataViewer, api, formVars>>

\* ApiService.logout()
Logout ==
    /\ api.pc = "idle"
    /\ FormQuiet
    /\ loginPage.pc = "idle"
    /\ signupPage.pc = "idle"
    /\ token' = Null
    /\ storage' = [storage EXCEPT !.auth_token = Null]
    /\ sessionLog' = [login |-> Null, logout |-> "api"]
    /\ UNCHANGED <<loginPage, signupPage, dashboard, userDataViewer, route, api, formVars>>

\* UserDataViewer.clearAllData(), confirmed: the three keys are removed, then
\* loadUserData()
ClearAllData ==
    /\ route = "/admin/user-data"
    /\ storage' = [auth_token |-> Null, user |-> Null, registeredUsers |-> Null]
    /\ userDataViewer' = loadUserData(storage')
    /\ UNCHANGED <<token, loginPage, signupPage, dashboard, route, sessionLog, api, formVars>>

(***************************************************************************)
(* InputForm (frontend/src/components/input-form.jsx, the farmer-friendly  *)
(* form) inside PredictionsPage.  An element of inflight is a handleSubmit *)
(* suspended at its await: form is the formData its closure holds, data    *)
(* the record it passed to predictYieldFarmerFriendly, body and headers    *)
(* what that method gave to fetch.                                         *)
(***************************************************************************)
formRequiredFields == <<"location", "crop">>

\* requiredFields.filter(field => !formData[field] || formData[field] === "")
formMissingFields(form) ==
    SelectSeq(formRequiredFields, LAMBDA field : ~Truthy(form[field]) \/ form[field] = EmptyStr)

\* setError(`Please fill in all required fields: ${missingFields.join(', ')}`)
formMissingMessage(missing) ==
    Str(<<"Please fill in all required fields: ">> \o
        Join([i \in 1..Len(missing) |-> <<missing[i]>>], <<", ">>))

\* the argument of ApiService.predictYieldFarmerFriendly in handleSubmit
formRequest(form) ==
    [location |-> form.location,
     crop_name |-> form.crop,
     year |-> Or(form.year, Num(CurrentYear))]

\* the else branch of if (result.success): the value given to setError
formErrorOf(result) ==
    IF result.errorType = Str(<<"validation">>)
    THEN IF Truthy(result.suggestedCrops) /\ Len(result.suggestedCrops.a) > 0
         THEN Str(ToStr(result.error) \o <<"\n\nTry these crops instead: ">>
                  \o Join(Slice0(result.suggestedCrops.a, 3), <<", ">>))
         ELSE result.error
    ELSE Or(result.error, Str(<<"Prediction failed. Please check your inputs and try again.">>))

LocationTexts == {EmptyStr, Str(<<"India">>)}
CropOptions == {EmptyStr, Str(<<"Wheat">>)}
\* e.target.value of the year field: the text the user left in it
YearTexts == {EmptyStr, Str(<<"2", "0", "2", "6">>), Str(<<"2", "0", "3", "5">>)}

\* handleInputChange(field, value)
HandleInputChange(field, value) ==
    /\ api.pc = "idle"
    /\ PredictionsPageOpen
    /\ formData' = [formData EXCEPT ![field] = value]
    /\ error' = IF Truthy(error) THEN Null ELSE error
    /\ UNCHANGED <<sessionVars, api, loading, inflight, predictionResult, card>>

\* a submit button that is never disabled
SubmitEnabled_always == TRUE

\* <button type="submit" disabled={loading}>: the form can be submitted
SubmitEnabled == ~loading

\* handleSubmit without setLoading(true)
HandleSubmit_withoutLoading ==
    /\ api.pc = "idle"
    /\ PredictionsPageOpen
    /\ SubmitEnabled
    /\ LET missing == formMissingFields(formData)
           data == formRequest(formData)
           apiMissing == missingFields(data, requiredFields)
       IN  IF Len(missing) > 0
           THEN /\ error' = formMissingMessage(missing)
                /\ inflight' = inflight
           ELSE IF Len(apiMissing) > 0
           THEN /\ error' = formErrorOf(MissingFieldsResult(apiMissing, requiredFields))
                /\ inflight' = inflight
           ELSE /\ error' = Null
                /\ inflight' = Append(inflight,
                                      [form |-> formData, data |-> data,
                                       body |-> predictYieldFarmerFriendly_body(data),
                                       headers |-> getHeaders(token)])
    /\ loading' = FALSE
    /\ UNCHANGED <<sessionVars, api, formData, predictionResult, card>>

\* handleSubmit up to its await; the submit button is disabled while loading
HandleSubmit ==
    /\ api.pc = "idle"
    /\ PredictionsPageOpen
    /\ SubmitEnabled
    /\ LET missing == formMissingFields(formData)
           data == formRequest(formData)
           apiMissing == missingFields(data, requiredFields)
       IN  IF Len(missing) > 0
           THEN /\ error' = formMissingMessage(missing)
                /\ loading' = FALSE
                /\ inflight' = inflight
           ELSE IF Len(apiMissing) > 0
           THEN /\ error' = formErrorOf(MissingFieldsResult(apiMissing, requiredFields))
                /\ loading' = FALSE
                /\ inflight' = inflight
           ELSE /\ error' = Null
                /\ loading' = TRUE
                /\ inflight' = Append(inflight,
                                      [form |-> formData, data |-> data,
                                       body |-> predictYieldFarmerFriendly_body(data),
                                       headers |-> getHeaders(token)])
    /\ UNCHANGED <<sessionVars, api, formData, predictionResult, card>>

\* Resolve with setLoading(false) on the success path only, not in finally
Resolve_withoutFinally ==
    /\ api.pc = "idle"
    /\ \E i \in 1..Len(inflight), response \in Responses :
        /\ LET result == predictYieldFarmerFriendly_then(response)
           IN  IF result.success
               THEN /\ predictionResult' = result
                    /\ card' = PredictionCard(result.confidence)
                    /\ error' = error
                    /\ loading' = FALSE
               ELSE /\ error' = formErrorOf(result)
                    /\ predictionResult' = predictionResult
                    /\ card' = card
                    /\ loading' = loading
        /\ inflight' = [j \in 1..(Len(inflight) - 1) |->
                            IF j < i THEN inflight[j] ELSE inflight[j + 1]]
    /\ UNCHANGED <<sessionVars, api, formData>>

\* Resolve with onPrediction(result) called for a failure too
Resolve_reportingFailures ==
    /\ api.pc = "idle"
    /\ \E i \in 1..Len(inflight), response \in Responses :
        /\ LET result == predictYieldFarmerFriendly_then(response)
           IN  /\ predictionResult' = result
               /\ card' = IF result.success THEN PredictionCard(result.confidence) ELSE card
               /\ error' = IF result.success THEN error ELSE formErrorOf(result)
        /\ loading' = FALSE
        /\ inflight' = [j \in 1..(Len(inflight) - 1) |->
                            IF j < i THEN inflight[j] ELSE inflight[j + 1]]
    /\ UNCHANGED <<sessionVars, api, formData>>

\* handleSubmit from its await on: fetch settled with response
Resolve ==
    /\ api.pc = "idle"
    /\ \E i \in 1..Len(inflight), response \in Responses :
        /\ LET result == predictYieldFarmerFriendly_then(response)
           IN  IF result.success
               THEN /\ predictionResult' = result
                    /\ card' = PredictionCard(result.confidence)
                    /\ error' = error
               ELSE /\ error' = formErrorOf(result)
                    /\ predictionResult' = predictionResult
                    /\ card' = card
        /\ loading' = FALSE
        /\ inflight' = [j \in 1..(Len(inflight) - 1) |->
                            IF j < i THEN inflight[j] ELSE inflight[j + 1]]
    /\ UNCHANGED <<sessionVars, api, formData>>

(***************************************************************************)
(* The router (frontend/src/App.jsx).  A visit unmounts the page of the    *)
(* current route, whose state is lost, and mounts the page of the new one, *)
(* whose mount effect runs.                                                *)
(***************************************************************************)
\* the user follows a link to the route `to` while no handler is suspended
Visit(to) ==
    /\ to # route
    /\ api.pc = "idle"
    /\ inflight = << >>
    /\ loginPage.pc = "idle"
    /\ signupPage.pc = "idle"
    /\ route' = Landing(to, storage)
    /\ dashboard' = DashboardMounted(to, storage)
    /\ userDataViewer' = ViewerMounted(to, storage)
    /\ loginPage' = LoginIdle
    /\ signupPage' = SignupIdle
    /\ formData' = [location |-> EmptyStr, crop |-> EmptyStr, year |-> Num(CurrentYear)]
    /\ loading' = FALSE
    /\ error' = Null
    /\ inflight' = << >>
    /\ predictionResult' = Null
    /\ card' = NoCard
    /\ UNCHANGED <<token, storage, sessionLog, api>>

(***************************************************************************)
(* Specification.  One browser tab.  The pages share localStorage and     *)
(* ApiService.token; a page has state only while its route is open.  The   *)
(* direct invocations of ApiService methods and the form are explored on   *)
(* /predictions: the invocations from the form's initial state, the form   *)
(* while no invocation is recorded.  Logins, signups, logouts and          *)
(* clearAllData, which write localStorage and the token, come in any       *)
(* number and order between visits.                                        *)
(***************************************************************************)
Init ==
    /\ InitSession
    /\ FormQuiet
    /\ api = Idle
    /\ loginPage = LoginIdle
    /\ signupPage = SignupIdle
    /\ dashboard = NoDashboard
    /\ userDataViewer = NoViewer
    /\ route = "/"
    /\ sessionLog = NoSessionLog

Next ==
    \/ PredictYieldFarmerFriendly
    \/ PredictYieldEnhanced
    \/ PredictYield
    \/ PredictYieldV1
    \/ PredictYieldBatch
    \/ HealthCheck
    \/ GetResource
    \/ Settle
    \/ \E value \in LocationTexts : HandleInputChange("location", value)
    \/ \E value \in CropOptions : HandleInputChange("crop", value)
    \/ \E value \in YearTexts : HandleInputChange("year", value)
    \/ HandleSubmit
    \/ Resolve
    \/ LoginSubmit
    \/ SignupSubmit
    \/ RegisterSettle
    \/ LoginSettle
    \/ MeSettle
    \/ HandleLogout
    \/ Logout
    \/ ClearAllData
    \/ \E to \in Routes : Visit(to)

Spec == Init /\ [][Next]_vars

(***************************************************************************)
(* PredictionCard on its own: a card is given a result whose confidence is *)
(* any category or any score up to MaxScore, and either copy renders it.   *)
(***************************************************************************)
CardInit ==
    /\ token = Null
    /\ storage = [auth_token |-> Null, user |-> Null, registeredUsers |-> Null]
    /\ formData = [location |-> EmptyStr, crop |-> EmptyStr, year |-> Num(CurrentYear)]
    /\ loading = FALSE
    /\ error = Null
    /\ inflight = << >>
    /\ predictionResult = Null
    /\ card \in {[NoCard EXCEPT !.confidence = c] : c \in CardInputs}
    /\ api = Idle
    /\ loginPage = LoginIdle
    /\ signupPage = SignupIdle
    /\ dashboard = NoDashboard
    /\ userDataViewer = NoViewer
    /\ route = "/predictions"
    /\ sessionLog = NoSessionLog

\* the copy of navbar.jsx renders the card
RenderCard ==
    /\ card.copy = "none"
    /\ card' = PredictionCard(card.confidence)
    /\ UNCHANGED <<sessionVars, api, formData, loading, error, inflight, predictionResult>>

\* the copy of part_003 renders the card
RenderCardV1 ==
    /\ card.copy = "none"
    /\ card' = PredictionCardV1(card.confidence)
    /\ UNCHANGED <<sessionVars, api, formData, loading, error, inflight, predictionResult>>

CardNext ==
    \/ RenderCard
    \/ RenderCardV1

CardSpec == CardInit /\ [][CardNext]_vars

(***************************************************************************)
(* Properties                                                              *)
(***************************************************************************)
\* location and crop name are text: the input records carry a string,
\* undefined or null under these names (StringVals, LocationTexts, CropOptions)
\* a value that counts as not given: undefined, null or the empty string
Absent(v) == v \in {Undefined, Null, EmptyStr}

\* the required fields of an input record that are absent, in order
AbsentFields(data, required) == SelectSeq(required, LAMBDA field : Absent(Get(data, field)))

FieldList(fields) == Join([i \in 1..Len(fields) |-> <<fields[i]>>], <<", ">>)

Called(methods) == api.pc # "idle" /\ api.method \in methods
ReturnedFrom(methods) == api.pc = "returned" /\ api.method \in methods

\* the prediction methods that build the object they return, and all of them
BuildsResult == {"predictYieldFarmerFriendly", "predictYieldEnhanced", "predictYield", "predictYieldV1"}
PredictionMethods == BuildsResult \cup {"predictYieldBatch"}

\* the response was a 2xx whose JSON parsed
Answered2xx == api.response.kind = "answered" /\ api.response.ok /\ api.response.json
\* the response was a non-2xx whose JSON parsed
AnsweredError == api.response.kind = "answered" /\ ~api.response.ok /\ api.response.json

\* C1: an input record whose location or crop is undefined, null or "" gets a
\* failure that lists exactly the absent required fields, and no HTTP request
\* is sent for it, both in ApiService.predictYieldFarmerFriendly and in
\* InputForm.handleSubmit.
C1_MissingFieldsAreListedAndNothingIsSent ==
    /\ Called({"predictYieldFarmerFriendly"}) =>
          LET absent == AbsentFields(api.data[1], requiredFields)
          IN  Len(absent) > 0 =>
                /\ api.pc = "returned"
                /\ ~api.sent
                /\ ~api.result.success
                /\ api.result.error =
                      Str(<<"Please provide all required fields: ">> \o FieldList(absent))
    /\ \A i \in 1..Len(inflight) :
          AbsentFields(inflight[i].form, formRequiredFields) = << >>
    /\ (error.t = "string" /\ Len(error.s) > 0
        /\ error.s[1] = "Please fill in all required fields: ") =>
          /\ inflight = << >>
          /\ ~loading
          /\ Len(AbsentFields(formData, formRequiredFields)) > 0
          /\ error.s = <<"Please fill in all required fields: ">>
                          \o FieldList(AbsentFields(formData, formRequiredFields))

C1_Witness ==
    /\ ReturnedFrom({"predictYieldFarmerFriendly"})
    /\ api.data[1].location = EmptyStr
    /\ api.data[1].crop_name = Str(<<"Wheat">>)
    /\ ~api.sent
    /\ api.result.error = Str(<<"Please provide all required fields: ", "location">>)

\* legacy name -> canonical name
LegacyNames == <<"area", "crop", "temperature", "rainfall", "pesticides">>
CanonicalOf(name) ==
    CASE name = "area" -> "location"
      [] name = "crop" -> "crop_name"
      [] name = "temperature" -> "avg_temp"
      [] name = "rainfall" -> "rainfall_mm"
      [] OTHER -> "pesticide_tonnes"

\* C2: for a legacy-named input given to ApiService.predictYield, the body that
\* is sent carries location, crop_name, avg_temp, rainfall_mm and
\* pesticide_tonnes, each with the value given under the legacy name.
C2_LegacyValuesReachTheBody ==
    (Called({"predictYield"}) /\ api.sent
     /\ \A i \in 1..Len(LegacyNames) : Get(api.data[1], LegacyNames[i]) # Undefined) =>
        \A i \in 1..Len(LegacyNames) :
            /\ CanonicalOf(LegacyNames[i]) \in DOMAIN api.body[1]
            /\ api.body[1][CanonicalOf(LegacyNames[i])] = api.data[1][LegacyNames[i]]

\* an input gives both names of a field, with different values
BothGiven(data, alias, canonical) ==
    /\ Get(data, alias) # Undefined
    /\ Get(data, canonical) # Undefined
    /\ Get(data, alias) # Get(data, canonical)

\* C3 as stated: when an input gives both the canonical name and a legacy
\* alias of a field with different values, the request carries the value
\* given under the canonical name.
C3_CanonicalNameWins ==
    (Called({"predictYield"}) /\ api.sent) =>
        /\ BothGiven(api.data[1], "area", "location") =>
              Get(api.body[1], "location") = api.data[1].location
        /\ BothGiven(api.data[1], "crop", "crop_name") =>
              Get(api.body[1], "crop_name") = api.data[1].crop_name

\* C3 amended: when an input gives both names with different values, the
\* request of predictYield carries the value given under the legacy alias
\* (area, crop) whenever that value is not empty, and the value given under
\* the canonical name only when the alias value is empty; the api.jsx
\* revision resolves avg_temp the same way, temperature first.
C3_LegacyAliasWins ==
    /\ (Called({"predictYield"}) /\ api.sent) =>
        /\ BothGiven(api.data[1], "area", "location") =>
              Get(api.body[1], "location") =
                  IF Truthy(api.data[1].area) THEN api.data[1].area
                  ELSE IF Truthy(api.data[1].area_name) THEN api.data[1].area_name
                  ELSE api.data[1].location
        /\ BothGiven(api.data[1], "crop", "crop_name") =>
              Get(api.body[1], "crop_name") =
                  IF Truthy(api.data[1].crop) THEN api.data[1].crop
                  ELSE api.data[1].crop_name
    /\ (Called({"predictYieldV1"}) /\ api.sent) =>
        /\ BothGiven(api.data[1], "crop", "crop_name") =>
              Get(api.body[1], "crop_name") =
                  IF Truthy(api.data[1].crop) THEN api.data[1].crop
                  ELSE api.data[1].crop_name
        /\ BothGiven(api.data[1], "temperature", "avg_temp") =>
              Get(api.body[1], "avg_temp") =
                  IF Truthy(api.data[1].temperature) THEN api.data[1].temperature
                  ELSE api.data[1].avg_temp

C3_Witness ==
    /\ Called({"predictYield"})
    /\ api.sent
    /\ api.data[1].area = Str(<<"India">>)
    /\ api.data[1].location = Str(<<"Kerala">>)
    /\ api.data[1].crop = Str(<<"Rice">>)
    /\ api.data[1].crop_name = Str(<<"Wheat">>)
    /\ api.body[1].location = Str(<<"India">>)
    /\ api.body[1].crop_name = Str(<<"Rice">>)

\* the names a caller may give an optional override under
OverrideNames ==
    [avg_temp |-> {"avg_temp", "temperature"},
     rainfall_mm |-> {"rainfall_mm", "rainfall"},
     pesticide_tonnes |-> {"pesticide_tonnes", "pesticides"},
     nitrogen |-> {"nitrogen"}, phosphorus |-> {"phosphorus"}, potassium |-> {"potassium"},
     soil_ph |-> {"soil_ph"}, humidity |-> {"humidity"}, ndvi_avg |-> {"ndvi_avg"},
     organic_matter |-> {"organic_matter"}]

\* the field names of the request bodies of section 6 of the specification
CanonicalNames == DOMAIN OverrideNames \cup {"location", "area_name", "crop_name", "year"}

\* C4: in every request body built by ApiService an optional override that the
\* caller did not give is null or absent, never a number put in by the client,
\* and the body has canonical field names only.
C4_UnsetOverridesStayUnset ==
    (Called(PredictionMethods) /\ api.sent) =>
        \A i \in 1..Len(api.body) :
            /\ DOMAIN api.body[i] \subseteq CanonicalNames
            /\ \A k \in DOMAIN OverrideNames :
                  (\A name \in OverrideNames[k] : Get(api.data[i], name) = Undefined) =>
                        Get(api.body[i], k) \in {Undefined, Null}


\* the buckets of the specification
Bucket(score) ==
    IF score >= 80 THEN Str(<<"high">>)
    ELSE IF score >= 60 THEN Str(<<"medium">>)
    ELSE Str(<<"low">>)

\* C5: a numeric confidence score s in a 2xx payload gives Success.confidence
\* "high" if s >= 80, "medium" if 60 <= s < 80, "low" otherwise.
C5_NumericScoreIsBucketed ==
    (ReturnedFrom(BuildsResult) /\ Answered2xx
     /\ api.response.result.confidence.t = "number") =>
        /\ api.result.success
        /\ api.result.confidence = Bucket(api.response.result.confidence.n)

\* C6: the confidence of every Success is one of low, medium, high.
C6_ConfidenceIsACategory ==
    (ReturnedFrom(BuildsResult) /\ api.result.success) =>
        api.result.confidence \in {Str(<<"low">>), Str(<<"medium">>), Str(<<"high">>)}

\* C7: whether predicted_yield arrives as a string or as a number, the
\* predictedYield of the Success is a number, finite and >= 0.
C7_PredictedYieldIsANumber ==
    (ReturnedFrom(BuildsResult) /\ Answered2xx
     /\ api.response.result.predicted_yield.t \in {"string", "number"}) =>
        /\ api.result.success
        /\ api.result.predictedYield.t = "number"
        /\ ~IsNaN(api.result.predictedYield)
        /\ api.result.predictedYield.n >= 0

\* the error body's detail is an object
StructuredError == AnsweredError /\ api.response.detail.v.t = "object"

\* C8: a structured error whose detail.suggested_crops is a list L gives a
\* Failure of predictYieldFarmerFriendly with suggestedCrops equal to L.
C8_SuggestedCropsAreKept ==
    (ReturnedFrom({"predictYieldFarmerFriendly"}) /\ StructuredError
     /\ api.response.detail.suggested_crops.t = "array") =>
        /\ ~api.result.success
        /\ api.result.suggestedCrops = api.response.detail.suggested_crops

\* C9: for every 4xx status whose body has an object-valued detail, the Failure
\* of predictYieldFarmerFriendly has error, suggested crops and climate data as
\* separate fields, and the object is not collapsed into one message string.
C9_StructuredDetailIsKeptOnEvery4xx ==
    (ReturnedFrom({"predictYieldFarmerFriendly"}) /\ StructuredError
     /\ api.response.status \in 400..499) =>
        /\ ~api.result.success
        /\ api.result.error = Str(StructuredErrorMessage(api.response.detail))
        /\ api.result.suggestedCrops.t = "array"
        /\ api.result.climateData.t = "object"

\* C10 as stated: a non-2xx response whose detail is a flat string d gives a
\* Failure whose message is d.
C10_FlatDetailIsTheMessage ==
    (ReturnedFrom(PredictionMethods) /\ AnsweredError /\ api.response.detail.v.t = "string") =>
        /\ ~api.result.success
        /\ api.result.error = api.response.detail.v

\* C10 amended: a non-2xx response whose detail is a non-empty flat string d
\* gives a Failure whose message is d; for the empty string the method's own
\* default message is substituted.
C10_NonEmptyFlatDetailIsTheMessage ==
    (ReturnedFrom(PredictionMethods) /\ AnsweredError /\ api.response.detail.v.t = "string"
     /\ api.response.detail.v # EmptyStr) =>
        /\ ~api.result.success
        /\ api.result.error = api.response.detail.v

C10_Witness ==
    /\ ReturnedFrom({"predictYieldEnhanced"})
    /\ api.response.status = 500
    /\ api.response.detail.v = Str(<<"Crop not supported">>)
    /\ api.result.error = Str(<<"Crop not supported">>)

\* the fetch of the invocation rejected (unreachable endpoint, DNS, timeout)
TransportFailed == api.response.kind = "rejected"

\* C11: when the fetch of a prediction method rejects, the method returns a
\* Failure whose error kind is "network", a kind that no validation or backend
\* failure carries.
C11_TransportFailureHasKindNetwork ==
    (ReturnedFrom(PredictionMethods) /\ TransportFailed) =>
        /\ ~api.result.success
        /\ api.result.errorType = Str(<<"network">>)

\* the promise of the invocation rejected: the caller's await throws
PromiseRejected == api.pc = "rejected"

\* C12: no ApiService operation rejects or throws to its caller: for every
\* outcome of fetch and of response.json() and for every argument, the promise
\* it returns resolves to a value.
C12_EveryOperationResolves == ~PromiseRejected

\* the two variants of a prediction result
IsSuccess(r) == ~r.raw /\ r.success /\ r.predictedYield \notin {Undefined, Null}
IsFailure(r) == ~r.raw /\ ~r.success /\ r.predictedYield \in {Undefined, Null}

\* C13: what a prediction method returns is a Success (success true, with a
\* yield) or a Failure (success false, predictedYield null or absent), and the
\* result that PredictionsPage hands to PredictionCard, whose yield is read and
\* formatted, is never one whose success is false.
C13_ResultIsSuccessOrFailure ==
    /\ ReturnedFrom(PredictionMethods) => (IsSuccess(api.result) \/ IsFailure(api.result))
    /\ predictionResult # Null => predictionResult.success

\* the phases of the form: a submission is Dispatching while its request is
\* outstanding; Validating, Invalid, Success and Failure are passed through
\* inside one run of handleSubmit
Dispatching == Len(inflight) > 0

\* C14: loading is true exactly while a submission's request is outstanding;
\* a request is dispatched only by a submission made while the form was idle
\* and whose required fields passed validation; and the step in which a
\* request resolves or rejects leaves loading false.
C14_SubmissionLifecycle ==
    [][/\ loading' <=> Dispatching'
       /\ (Len(inflight') > Len(inflight)) =>
             /\ ~loading
             /\ ~Dispatching
             /\ formMissingFields(formData) = << >>
             /\ inflight'[Len(inflight')].form = formData
       /\ (Len(inflight') < Len(inflight)) => ~loading']_vars

\* a submission was dispatched, its fetch rejected, and the form is idle again
\* showing the failure
C14_Witness ==
    /\ ~loading
    /\ ~Dispatching
    /\ error = Str(<<"Failed to fetch">>)
    /\ formMissingFields(formData) = << >>

PageStays == route = "/predictions" /\ route' = "/predictions"

C16_AtMostOneRequestPerInvocation ==
    Called(PredictionMethods) =>
        /\ api.attempts = (IF api.sent THEN 1 ELSE 0)
        /\ (api.pc = "returned" /\ (TransportFailed \/ AnsweredError)) =>
              /\ ~api.result.success
              /\ api.attempts = 1

C16_Witness ==
    /\ ReturnedFrom({"predictYieldEnhanced"})
    /\ TransportFailed
    /\ ~api.result.success
    /\ api.attempts = 1

\* a request built with getHeaders is outstanding: its headers
PendingHeaders ==
    (IF api.pc = "pending" /\ api.method \in PredictionMethods THEN {api.headers} ELSE {})
    \cup {inflight[i].headers : i \in 1..Len(inflight)}
    \cup (IF loginPage.pc = "me" THEN {loginPage.headers} ELSE {})
    \cup (IF signupPage.pc = "me" THEN {signupPage.headers} ELSE {})

\* C17: a request built with getHeaders carries an Authorization: Bearer
\* header exactly when a session exists: after a successful login it carries
\* the token that login obtained, and after the user has logged out
\* (handleLogout of the UI or ApiService.logout) it carries no Authorization
\* header.
C17_AuthorizationFollowsTheSession ==
    \A headers \in PendingHeaders :
        /\ sessionLog.login # Null =>
              headers.Authorization = Str(<<"Bearer ">> \o sessionLog.login.s)
        /\ sessionLog.logout # "no" => headers.Authorization = Undefined

\* C18: after the user has logged out through the UI, the auth_token key, the
\* user key and ApiService.token all hold no value, whatever logins and
\* logouts came before.
C18_UiLogoutDestroysTheSession ==
    sessionLog.logout = "ui" =>
        /\ storage.auth_token = Null
        /\ storage.user = Null
        /\ token = Null

\* C19: the Failure that the client-side check of the required fields produces
\* (the method returned before any fetch) carries error kind validation, and a
\* Failure that carries kind validation was produced without an HTTP response.
C19_ValidationKindIsClientSide ==
    ReturnedFrom(PredictionMethods) =>
        /\ ~api.sent => api.result.errorType = Str(<<"validation">>)
        /\ api.result.errorType = Str(<<"validation">>) =>
              (~api.sent /\ api.response.kind = "none")

\* C20: every prediction request that the form dispatches has a year that is an
\* integer from 2020 to 2030, whatever the user left in the year field.
C20_DispatchedYearIsAnIntegerInRange ==
    \A i \in 1..Len(inflight) :
        LET year == Get(inflight[i].body, "year")
        IN  /\ year.t = "number"
            /\ ~IsNaN(year)
            /\ year.n \in 2020..2030

\* a string of at least one character
NonEmptyText(v) == v.t = "string" /\ v.s # << >>

\* the methods that post to the farmer-friendly and enhanced prediction endpoints
EndpointMethods == {"predictYieldFarmerFriendly", "predictYieldEnhanced", "predictYield"}

\* the bodies given to fetch by these methods and not yet answered, and those
\* of the invocation in the api slot once it has returned
RequestBodies ==
    (IF Called(EndpointMethods) /\ api.sent THEN {api.body[1]} ELSE {})
    \cup {inflight[i].body : i \in 1..Len(inflight)}

\* C21: every request body that predictYieldFarmerFriendly, predictYieldEnhanced
\* or the legacy predictYield gives to fetch has a location and a crop_name that
\* are non-empty strings.
C21_BodyHasLocationAndCropName ==
    \A body \in RequestBodies :
        /\ NonEmptyText(Get(body, "location"))
        /\ NonEmptyText(Get(body, "crop_name"))

\* the legacy predictYield has sent a body whose location came from an alias
C21_Witness ==
    /\ Called({"predictYield"})
    /\ api.sent
    /\ Get(api.data[1], "location") = Undefined
    /\ Get(api.data[1], "area") = Undefined
    /\ NonEmptyText(Get(api.body[1], "location"))
    /\ NonEmptyText(Get(api.body[1], "crop_name"))

\* the step in which the ApiService.login that a page awaits returns a failure
LoginFails ==
    \/ loginPage.pc = "login" /\ loginPage'.pc = "idle"
    \/ signupPage.pc = "login" /\ signupPage'.pc = "idle"

\* C23: a login attempt that fails (fetch rejected, non-2xx answer, or a body
\* that does not parse) leaves ApiService.token and the auth_token key of
\* localStorage as they were before the attempt.
C23_FailedLoginKeepsTheToken ==
    [][LoginFails => (token' = token /\ storage'.auth_token = storage.auth_token)]_vars

\* the login page shows the failure of an attempt made while an earlier
\* session's token was held, and the token is still held
C23_Witness ==
    /\ route = "/login"
    /\ loginPage.pc = "idle"
    /\ loginPage.errors.general =
          Str(<<"Invalid email or password. Please check your credentials and try again.">>)
    /\ token = Str(<<"token-1">>)
    /\ storage.auth_token = Str(<<"token-1">>)

\* a handleSubmit of LoginPage or SignupPage is suspended at
\* await ApiService.getCurrentUser(); the headers of that request
AwaitingMe == loginPage.pc = "me" \/ signupPage.pc = "me"
MeHeaders == IF loginPage.pc = "me" THEN loginPage.headers ELSE signupPage.headers

\* the step that ends a handleSubmit of LoginPage or SignupPage with a failure
\* of register, login or getCurrentUser
FlowFails ==
    \/ loginPage.pc # "idle" /\ loginPage'.pc = "idle" /\ loginPage'.errors.general # Undefined
    \/ signupPage.pc # "idle" /\ signupPage'.pc = "idle"
          /\ signupPage'.errors.general # Undefined

\* the step in which the user key of localStorage is written
UserKeyWritten == storage'.user # storage.user /\ storage'.user # Null

\* C22: in the login and signup flows, getCurrentUser is awaited only once
\* login has succeeded and stored its token, and its request carries that
\* token; the user key is written, and the flow navigates, only in the step
\* in which getCurrentUser succeeds, to /dashboard; a step in which register,
\* login or getCurrentUser fails writes no user key and leaves the route.
C22_FlowOrder ==
    [][/\ (signupPage'.pc = "login" /\ signupPage.pc # "login") =>
             signupPage.pc = "register"
       /\ (AwaitingMe' /\ ~AwaitingMe) =>
             /\ loginPage.pc = "login" \/ signupPage.pc = "login"
             /\ token' = sessionLog'.login
             /\ storage'.auth_token = token'
             /\ MeHeaders'.Authorization = Str(<<"Bearer ">> \o token'.s)
       /\ UserKeyWritten =>
             /\ AwaitingMe
             /\ ~FlowFails
             /\ storage'.user = UserProfile
             /\ route' = "/dashboard"
       /\ ((loginPage.pc # "idle" \/ signupPage.pc # "idle") /\ route' # route) =>
             /\ AwaitingMe
             /\ storage'.user = UserProfile
             /\ route' = "/dashboard"
       /\ FlowFails => (storage'.user = storage.user /\ route' = route)]_vars

\* a signup (no registeredUsers list allows a login through LoginPage) has
\* registered, logged in, fetched the profile, stored it and opened the
\* dashboard
C22_Witness ==
    /\ storage.registeredUsers = Null
    /\ route = "/dashboard"
    /\ storage.user = UserProfile
    /\ dashboard.user # Null
    /\ token = Str(<<"token-2">>)
    /\ storage.auth_token = token
    /\ sessionLog.login = token

\* C24: ApiService.token is non-null exactly when localStorage holds an
\* auth_token entry, and then the two are the same string, after any sequence
\* of logins, ApiService.logout and UserDataViewer.clearAllData.
C24_TokenMirrorsStorage ==
    /\ (token # Null) <=> (storage.auth_token # Null)
    /\ token # Null => storage.auth_token = token

\* C25: one InputForm has at most one prediction request in flight: loading
\* is true while a request is in flight, the submit control is disabled
\* whenever loading is true, and so no submission is possible until the
\* request has resolved.
C25_AtMostOneRequestInFlight ==
    /\ Len(inflight) <= 1
    /\ Dispatching => loading
    /\ loading => (~SubmitEnabled /\ ~ENABLED HandleSubmit)

\* the first request of a complete form is in flight and the form refuses a
\* submission
C25_Witness ==
    /\ route = "/predictions"
    /\ Len(inflight) = 1
    /\ inflight[1].form = formData
    /\ predictionResult = Null
    /\ loading
    /\ ~ENABLED HandleSubmit

\* C26: a step that ends a submission of the form in failure (required fields
\* missing, a Failure returned for a backend error or a network error), which
\* is a step that leaves an error displayed, leaves predictionResult as it
\* was; and predictionResult is only ever null or a result with success true.
C26_FailureKeepsThePrediction ==
    [][/\ Truthy(error') => predictionResult' = predictionResult
       /\ predictionResult' # Null => predictionResult'.success]_vars

\* the prediction of an earlier submission is still displayed after a later
\* submission has failed
C26_Witness ==
    /\ predictionResult # Null
    /\ predictionResult.success
    /\ Truthy(error)
    /\ ~loading
    /\ inflight = << >>

\* a handleSubmit of LoginPage has sent, or is past, its login request
LoginRequested == loginPage.pc \in {"login", "me"}

BodyNameV1(field) ==
    CASE field = "area" -> "area_name"
      [] field = "crop" -> "crop_name"
      [] field = "temperature" -> "avg_temp"
      [] field = "rainfall" -> "rainfall_mm"
      [] field = "pesticides" -> "pesticide_tonnes"
      [] OTHER -> field

\* the value for which the required-field check counted the field as given:
\* that of the field's own name, or else that of its alternative name
AcceptedV1(data, field) ==
    IF hasValue(data, field) THEN Get(data, field) ELSE Get(data, altNames(field)[1])

\* C28: when the required-field check of predictYield (api.jsx) passes, the
\* request body holds for each of area_name, crop_name, year, avg_temp,
\* rainfall_mm and pesticide_tonnes a defined, non-null value, the one the
\* check accepted, the number 0 included.
C28_BodyHoldsEveryAcceptedValue ==
    (Called({"predictYieldV1"}) /\ api.sent) =>
        \A i \in 1..Len(requiredFieldsV1) :
            LET field == requiredFieldsV1[i]
                sent == Get(api.body[1], BodyNameV1(field))
            IN  /\ sent # Undefined
                /\ sent # Null
                /\ sent = AcceptedV1(api.data[1], field)

\* a visit to /dashboard that stays there, and one that ends on /login
DashboardOpens == Visit("/dashboard") /\ route' = "/dashboard"
RedirectedToLogin == Visit("/dashboard") /\ route' = "/login"

\* C29: the dashboard is open, and its content rendered, only while
\* localStorage holds a user entry: a visit to /dashboard without the entry
\* cannot stay there and ends on /login with no content rendered, and after
\* handleLogout the entry is absent and the dashboard closed.
C29_DashboardNeedsTheUserEntry ==
    /\ route = "/dashboard" => Truthy(storage.user)
    /\ Truthy(dashboard.user) => (route = "/dashboard" /\ Truthy(storage.user))
    /\ ~Truthy(storage.user) =>
          /\ ~ENABLED DashboardOpens
          /\ ENABLED Visit("/dashboard") => ENABLED RedirectedToLogin
    /\ sessionLog.logout = "ui" => (~Truthy(storage.user) /\ route # "/dashboard")

\* the user logged in, opened the dashboard and logged out through the UI:
\* the entry is gone, the token is not, and a visit to /dashboard would end
\* on /login
C29_Witness ==
    /\ sessionLog.logout = "ui"
    /\ route = "/"
    /\ token = Str(<<"token-2">>)
    /\ ~Truthy(storage.user)
    /\ dashboard = NoDashboard
    /\ ENABLED RedirectedToLogin
    /\ ~ENABLED DashboardOpens

\* the colour that stands for a confidence category
CategoryColor(category) ==
    CASE category = Str(<<"high">>) -> "bg-green-500"
      [] category = Str(<<"medium">>) -> "bg-yellow-500"
      [] OTHER -> "bg-red-500"

\* C30: the card of navbar.jsx shows high as 85, medium as 65 and anything
\* else as 45, and the colour that getConfidenceColor gives that score is the
\* colour of the category: green for high, yellow for medium, red for low; and
\* on every integer score from 0 to 100 the getConfidenceColor of part_003
\* gives the colour that the one of navbar.jsx gives.
C30_ScoreKeepsTheCategoryColour ==
    /\ card.copy = "navbar" =>
          /\ card.score = (CASE card.confidence = Str(<<"high">>) -> Num(85)
                             [] card.confidence = Str(<<"medium">>) -> Num(65)
                             [] OTHER -> Num(45))
          /\ card.color = getConfidenceColor(card.score)
          /\ card.color = CategoryColor(card.confidence)
    /\ (card.copy = "part_003" /\ card.confidence.t = "number") =>
          /\ card.color = getConfidenceColorV1(card.confidence)
          /\ card.color = getConfidenceColor(card.confidence)
          /\ card.color = (IF card.confidence.n >= 80 THEN "bg-green-500"
                           ELSE IF card.confidence.n >= 60 THEN "bg-yellow-500"
                           ELSE "bg-red-500")

\* the card of navbar.jsx has rendered a medium confidence as 65, in yellow
C30_Witness ==
    /\ card.copy = "navbar"
    /\ card.confidence = Str(<<"medium">>)
    /\ card.score = Num(65)
    /\ card.color = "bg-yellow-500"

====
